---- MODULE Spec2Model ----
(***************************************************************************)
(* A model of jira-ticket-monitor.py: the report job (create_excel,        *)
(* save_excel) over the workbook it keeps on disk, the comment resolver    *)
(* (fetch_comments, extract_text) with its process-wide cache, the query   *)
(* resolver (fetch_issues), the annotation of the comment cell, and one    *)
(* run of create_excel step by step, with the threads of its pool.         *)
(***************************************************************************)
EXTENDS Integers, Sequences, FiniteSets, TLC

(***************************************************************************)
(* Bounds of the model.                                                    *)
(***************************************************************************)
MaxNewRows == 2      \* longest list of projected rows one merge is given
MaxSheetRows == 5    \* a merge is explored while the sheet stays this short
MaxSheets == 2       \* a run is explored while the workbook has this few sheets

Keys == {"K-1", "K-2"}          \* issue identifiers
Vals == {"v1", "v2"}            \* contents of the columns 2..9 of a projected row
RemarkText == "keep me"         \* what the operator types into a remark cell
TitleText == "Weekly report"    \* what the operator types into cell A1
Queries == <<"s1">>             \* config['QUERY']: the sheet names, in order

NoFile == <<>>                  \* os.path.exists(file_path) is False: no workbook

(***************************************************************************)
(* The sheet as the sink keeps it: a sequence of physical rows (index =    *)
(* Excel row number) of ten cells; "" is an empty cell.                    *)
(***************************************************************************)
NumCols == 10
EmptyCell == ""
BlankRow == [c \in 1..NumCols |-> EmptyCell]

headers == <<"Jira Ticket ID", "Summary", "PIC", "Status", "Priority",
             "Update Time", "Sensor Issue Category", "Gerrit ID", "Comments",
             "Remark">>

Max(S) == CHOOSE x \in S : \A y \in S : y <= x
Min(S) == CHOOSE x \in S : \A y \in S : x <= y

\* ws.Cells(r, c).Value
CellValue(cells, r, c) == IF r \in 1..Len(cells) THEN cells[r][c] ELSE EmptyCell

\* ws.Cells(r, c).Value = v; rows between the old end and r come into being blank
SetCell(cells, r, c, v) ==
    LET n == IF r > Len(cells) THEN r ELSE Len(cells)
        grown == [i \in 1..n |-> IF i <= Len(cells) THEN cells[i] ELSE BlankRow]
    IN [grown EXCEPT ![r] = [@ EXCEPT ![c] = v]]

\* ws.UsedRange.Rows.Count: the height of the rectangle that bounds the used
\* cells; the range starts at the first used row, not at row 1, and is the
\* single cell A1 on a sheet with nothing in it.
UsedRows(cells) == {r \in 1..Len(cells) : cells[r] # BlankRow}
UsedRangeRowsCount(cells) ==
    IF UsedRows(cells) = {} THEN 1
    ELSE Max(UsedRows(cells)) - Min(UsedRows(cells)) + 1

(***************************************************************************)
(* Row projection (line 184): the identifier, eight derived columns and an *)
(* empty remark.                                                           *)
(***************************************************************************)
ProjectRow(key, v) == <<key, v, v, v, v, v, v, v, v, EmptyCell>>
ProjectedRows == {ProjectRow(k, v) : k \in Keys, v \in Vals}

RECURSIVE SeqsUpTo(_, _)
SeqsUpTo(S, n) ==
    IF n = 0 THEN {<<>>}
    ELSE LET shorter == SeqsUpTo(S, n - 1)
         IN shorter \cup {Append(q, x) : q \in {p \in shorter : Len(p) = n - 1}, x \in S}

(***************************************************************************)
(* The merge step, lines 193-209.                                          *)
(***************************************************************************)
\* lines 202-203: for col in range(2, 10): ws.Cells(r, col).Value = str(row[col - 1])
UpdateCols == 2..9
UpdateRow(cells, r, row) ==
    [cells EXCEPT ![r] = [c \in 1..NumCols |-> IF c \in UpdateCols THEN row[c] ELSE @[c]]]

\* lines 208-209: for col in range(1, 10): ws.Cells(last_row, col).Value = row[col - 1]
AppendCols == 1..9
WriteCols(cells, r, row, cols) ==
    LET n == IF r > Len(cells) THEN r ELSE Len(cells)
    IN [i \in 1..n |->
          IF i = r
          THEN [c \in 1..NumCols |->
                  IF c \in cols THEN row[c] ELSE CellValue(cells, r, c)]
          ELSE IF i <= Len(cells) THEN cells[i] ELSE BlankRow]

\* lines 194-196: last_row = 2; if ws.UsedRange is not None: last_row = ws.UsedRange.Rows.Count
\* (UsedRange is a Range object on every sheet, so the branch is always taken)
InitialLastRow(cells) == UsedRangeRowsCount(cells)

\* lines 198-209: the body of "for row in rows" for one row
MergeRow(cells, last_row, row) ==
    LET hits == {r \in 3..last_row : CellValue(cells, r, 1) = row[1]}
    IN IF hits # {}
       THEN [cells |-> UpdateRow(cells, Min(hits), row), last_row |-> last_row]
       ELSE [cells |-> WriteCols(cells, last_row + 1, row, AppendCols),
             last_row |-> last_row + 1]

\* lines 197-209: "for row in rows" (each step is taken on the value the
\* step before produced)
RECURSIVE MergeRows(_, _, _)
MergeRows(cells, last_row, rows) ==
    IF rows = <<>> THEN cells
    ELSE CHOOSE merged \in {MergeRows(step.cells, step.last_row, Tail(rows)) :
                                step \in {MergeRow(cells, last_row, Head(rows))}} : TRUE

Merge(cells, rows) == MergeRows(cells, InitialLastRow(cells), rows)

(***************************************************************************)
(* The workbook: a sequence of sheets, Sheets(1) first.  A sheet name is   *)
(* a base name and the number Excel puts in parentheses on a copy.         *)
(***************************************************************************)
SheetName(base) == [base |-> base, copy |-> 1]
Sheet(name, cells) == [name |-> name, cells |-> cells]

\* excel.Workbooks.Add(): a new workbook holds one empty default sheet
NewWorkbook == <<Sheet(SheetName("Sheet1"), <<>>)>>

\* lines 129-132
OpenWorkbook(file) == IF file # NoFile THEN file ELSE NewWorkbook

SheetIndex(book, name) == {i \in 1..Len(book) : book[i].name = name}
HasSheet(book, base) == SheetIndex(book, SheetName(base)) # {}
SheetCells(book, base) == book[Min(SheetIndex(book, SheetName(base)))].cells

\* lines 145-149: the header goes into row 2
HeaderCells == <<BlankRow, headers>>

\* lines 139-149: ws = wb.Worksheets(sheet_name), or a new sheet with the header
\* row, added before the first sheet
GetOrCreateSheet(book, base) ==
    IF HasSheet(book, base) THEN book
    ELSE <<Sheet(SheetName(base), HeaderCells)>> \o book

SetSheetCells(book, base, cells) ==
    [i \in 1..Len(book) |->
        IF book[i].name = SheetName(base) THEN Sheet(book[i].name, cells) ELSE book[i]]

\* lines 134-240 for one sheet: the sheet is found or created, the projected
\* rows are merged into it; hyperlinks, character formats and format_excel
\* change no cell value.
ProcessSheet(book, base, rows) ==
    LET opened == GetOrCreateSheet(book, base)
    IN SetSheetCells(opened, base, Merge(SheetCells(opened, base), rows))

RECURSIVE ProcessQueries(_, _, _)
ProcessQueries(book, todo, fetched) ==
    IF todo = <<>> THEN book
    ELSE CHOOSE done \in {ProcessQueries(next, Tail(todo), fetched) :
                              next \in {ProcessSheet(book, Head(todo), fetched[Head(todo)])}} : TRUE

(***************************************************************************)
(* save_excel, lines 275-291.  When the file exists, the path handed to    *)
(* Workbooks.Open is the one create_excel has open already (lines 126-130  *)
(* and 278-282 build the same path).  The sink then either hands back that *)
(* open workbook, and every sheet of wb is copied before its first sheet   *)
(* (the copy of "name" is called "name (n)" with the next n), or refuses   *)
(* to reopen a workbook with unsaved changes, and the com_error ends the   *)
(* run before anything is saved (main catches RequestException only).      *)
(***************************************************************************)
ReopenOutcomes == {"same", "refused"}

SheetsOfBase(book, base) == {i \in 1..Len(book) : book[i].name.base = base}
NextCopy(book, base) == 1 + Max({book[i].name.copy : i \in SheetsOfBase(book, base)})

\* sheet.Copy(Before=existing_wb.Sheets(1))
CopyBeforeFirst(book, sheet) ==
    <<Sheet([base |-> sheet.name.base, copy |-> NextCopy(book, sheet.name.base)],
            sheet.cells)>> \o book

\* lines 283-284: for sheet in wb.Worksheets: sheet.Copy(...), over the sheets
\* the workbook had when the loop began
RECURSIVE CopySheets(_, _)
CopySheets(book, sheets) ==
    IF sheets = <<>> THEN book
    ELSE CHOOSE done \in {CopySheets(next, Tail(sheets)) :
                              next \in {CopyBeforeFirst(book, Head(sheets))}} : TRUE

\* what the file holds when save_excel(wb, excel) is over
save_excel(file, book, reopen) ==
    IF file # NoFile
    THEN IF reopen = "same" THEN CopySheets(book, book) ELSE file
    ELSE book

(***************************************************************************)
(* State.                                                                  *)
(***************************************************************************)
VARIABLES
    disk,       \* the report file: NoFile, or the workbook last saved
    existed,    \* last run: did the sheet exist when the run looked it up
    pre,        \* last run: the sheet's cells when the merge step began
    rows,       \* last run: the projected rows given to the merge step (line 160)
    post,       \* last run: the sheet's cells when the merge step was over
    saved,      \* last run: did save_excel write the file
    edited      \* has the operator changed the file since the last run

jobVars == <<disk, existed, pre, rows, post, saved, edited>>

QueryNames == {Queries[i] : i \in 1..Len(Queries)}
\* the rows of one sheet in one run: one row per fetched issue, each issue once
RowLists == {list \in SeqsUpTo(ProjectedRows, MaxNewRows) :
                \A i, j \in 1..Len(list) : list[i][1] = list[j][1] => i = j}

JobInit ==
    /\ disk = NoFile
    /\ existed = [s \in QueryNames |-> FALSE]
    /\ pre = [s \in QueryNames |-> <<>>]
    /\ rows = [s \in QueryNames |-> <<>>]
    /\ post = [s \in QueryNames |-> <<>>]
    /\ saved = FALSE
    /\ edited = FALSE

\* create_excel(queries), lines 118-248, with save_excel at line 245: one run
\* of the job.  fetched[s] is the list of rows projected from the issues that
\* query s fetched in this run, in completion order.
create_excel(fetched, reopen) ==
    \E wb \in {OpenWorkbook(disk)} :
    \E done \in {ProcessQueries(wb, Queries, fetched)} :
       /\ Len(wb) <= MaxSheets
       /\ \A s \in QueryNames : Len(SheetCells(done, s)) <= MaxSheetRows
       /\ disk' = save_excel(disk, done, reopen)
       /\ existed' = [s \in QueryNames |-> HasSheet(wb, s)]
       /\ pre' = [s \in QueryNames |-> SheetCells(GetOrCreateSheet(wb, s), s)]
       /\ rows' = fetched
       /\ post' = [s \in QueryNames |-> SheetCells(done, s)]
       /\ saved' = (disk = NoFile \/ reopen = "same")
       /\ edited' = FALSE

\* The operator, between runs: a remark typed next to a row that holds an
\* issue, and a title typed into cell A1.
IssueRows(cells) == {r \in 2..Len(cells) : cells[r][1] \in Keys}

EditRemark(s, r) ==
    /\ disk # NoFile
    /\ HasSheet(disk, s)
    /\ r \in IssueRows(SheetCells(disk, s))
    /\ CellValue(SheetCells(disk, s), r, 10) # RemarkText
    /\ disk' = SetSheetCells(disk, s, SetCell(SheetCells(disk, s), r, 10, RemarkText))
    /\ edited' = TRUE
    /\ UNCHANGED <<existed, pre, rows, post, saved>>

EditTitle(s) ==
    /\ disk # NoFile
    /\ HasSheet(disk, s)
    /\ CellValue(SheetCells(disk, s), 1, 1) = EmptyCell
    /\ disk' = SetSheetCells(disk, s, SetCell(SheetCells(disk, s), 1, 1, TitleText))
    /\ edited' = TRUE
    /\ UNCHANGED <<existed, pre, rows, post, saved>>

(***************************************************************************)
(* The comment resolver, fetch_comments (lines 60-111).                    *)
(*                                                                         *)
(* JSON values: a dict is a record that has the fields the document has,   *)
(* a list is a sequence under the tag "list".  Text is a sequence of       *)
(* tokens, concatenated by \o.                                             *)
(***************************************************************************)
MaxComments == 3     \* longest comment list the tracker answers with
MaxRecent == 3       \* largest configured RECENT_COMMENTS_COUNT
MaxTasks == 2        \* longest issue list handed to one pool
MaxRounds == 2       \* sheets (pools) in one run
LocalUtcOffset == 8  \* hours east of UTC of the machine's time zone

List(items) == [k |-> "list", items |-> items]
Dict(fields) == [k |-> "dict", f |-> fields]

\* the outcome of evaluating an expression: a value, or an exception raised
Value(v) == [exc |-> "none", val |-> v, key |-> ""]
Raise(e, key) == [exc |-> e, val |-> <<>>, key |-> key]

\* lines 73-89
RECURSIVE extract_text(_)
RECURSIVE JoinTexts(_)
\* (a join that stops after the first item)
JoinFirstOnly(items) ==
    IF items = <<>> THEN Value(<<>>) ELSE extract_text(Head(items))

\* ''.join(extract_text(item) for item in items): the first item that raises
\* ends the join
JoinTexts(items) ==
    IF items = <<>> THEN Value(<<>>)
    ELSE CHOOSE out \in
           {IF first.exc # "none" THEN first
            ELSE CHOOSE o \in {IF rest.exc # "none" THEN rest
                                ELSE Value(first.val \o rest.val) :
                                   rest \in {JoinTexts(Tail(items))}} : TRUE :
              first \in {extract_text(Head(items))}} : TRUE

extract_text(content) ==
    IF content.k = "list" THEN JoinTexts(content.items)             \* lines 75-76
    ELSE IF content.k # "dict" THEN Value(<<content.v>>)            \* lines 78-79
    ELSE IF "type" \notin DOMAIN content.f THEN Raise("KeyError", "type")
    ELSE IF content.f.type = "text" THEN                            \* lines 81-82
        IF "text" \in DOMAIN content.f THEN Value(<<content.f.text>>)
        ELSE Raise("KeyError", "text")
    ELSE IF content.f.type = "mention" THEN                         \* lines 83-84
        IF "attrs" \notin DOMAIN content.f THEN Raise("KeyError", "attrs")
        ELSE IF "text" \notin DOMAIN content.f.attrs THEN Raise("KeyError", "text")
        ELSE Value(<<content.f.attrs.text>>)
    ELSE IF content.f.type = "hardBreak" THEN Value(<<"\n">>)       \* lines 85-86
    ELSE IF "content" \in DOMAIN content.f                          \* lines 87-88
        THEN JoinTexts(content.f.content.items)
    ELSE Value(<<>>)                                                \* line 89

\* lines 100-101: the tracker's fixed-offset time, parsed and put on the
\* local clock.  A time is the hour on the sender's clock and the sender's
\* offset from UTC.
LocalTime(created) == created.clock - created.offset + LocalUtcOffset

\* line 102: f"**[{local_created_time}, {author}]**\n{comment_body}", kept as
\* its three parts; line 105: f"Error parsing comment: {str(e)}"
FullComment(time, author, body) ==
    [kind |-> "comment", time |-> time, author |-> author, text |-> body]
ErrorMarker(e) ==
    [kind |-> "error", time |-> 0, author |-> "",
     text |-> <<"Error parsing comment: ", e.key>>]

\* lines 94-102: the body of the try, in the order the fields are read
ParseComment(comment) ==
    IF "updateAuthor" \notin DOMAIN comment THEN Raise("KeyError", "updateAuthor")
    ELSE IF "displayName" \notin DOMAIN comment.updateAuthor
        THEN Raise("KeyError", "displayName")
    ELSE IF "created" \notin DOMAIN comment THEN Raise("KeyError", "created")
    ELSE IF "body" \notin DOMAIN comment THEN Raise("KeyError", "body")
    ELSE IF "content" \notin DOMAIN comment.body THEN Raise("KeyError", "content")
    ELSE CHOOSE out \in
           {IF body.exc # "none" THEN body
            ELSE Value(FullComment(LocalTime(comment.created),
                                   comment.updateAuthor.displayName, body.val)) :
              body \in {extract_text(comment.body.content)}} : TRUE

\* (an except clause that names IndexError alone)
CaughtIndexErrorOnly == {"IndexError"}

\* line 104: except (KeyError, IndexError)
CaughtErrors == {"KeyError", "IndexError"}

\* line 92: comments_data[-RECENT_COMMENTS_COUNT:][::-1].  A slice that
\* starts at -n starts n from the end, at the start when the list is shorter,
\* and -0 is 0: the slice from 0 is the whole list.
SliceStart(len, n) == IF n = 0 THEN 0 ELSE IF n > len THEN 0 ELSE len - n
RecentWindow(comments_data, n) ==
    LET start == SliceStart(Len(comments_data), n)
        count == Len(comments_data) - start
    IN [i \in 1..count |-> comments_data[Len(comments_data) + 1 - i]]

\* lines 92-105: the loop over the window.  The outcome is the list, or the
\* exception that the except clause does not catch.
RenderComments(comments_data, n) ==
    LET window == RecentWindow(comments_data, n)
        parsed == [i \in 1..Len(window) |-> ParseComment(window[i])]
        escaped == {i \in 1..Len(window) :
                       parsed[i].exc # "none" /\ parsed[i].exc \notin CaughtErrors}
    IN IF escaped # {} THEN Raise(parsed[Min(escaped)].exc, parsed[Min(escaped)].key)
       ELSE Value([i \in 1..Len(window) |->
                      IF parsed[i].exc = "none" THEN parsed[i].val
                      ELSE ErrorMarker(parsed[i])])

\* (a lookup that tests the cached list instead of the key: an empty list is
\* no hit)
CacheHitNonEmpty(cache, issue_key) ==
    issue_key \in DOMAIN cache /\ cache[issue_key] # <<>>

\* line 64: if issue_key in comments_cache
CacheHit(cache, issue_key) == issue_key \in DOMAIN cache

\* line 107: comments_cache[issue_key] = comments_list
CacheStore(cache, issue_key, comments_list) ==
    [k \in DOMAIN cache \cup {issue_key} |->
        IF k = issue_key THEN comments_list ELSE cache[k]]

\* (a failed fetch that leaves an empty list under the key)
FailedFetchMemoEmpty(cache, issue_key) == CacheStore(cache, issue_key, <<>>)

\* lines 68-69: raise_for_status() raises, or requests.get raises, and the
\* function is left before line 107: the cache is what it was
FailedFetchCache(cache, issue_key) == cache

(***************************************************************************)
(* What the tracker may answer.                                            *)
(***************************************************************************)
Text(t) == Dict([type |-> "text", text |-> t])
Mention(t) == Dict([type |-> "mention", attrs |-> [text |-> t]])
HardBreak == Dict([type |-> "hardBreak"])
Paragraph(items) == Dict([type |-> "paragraph", content |-> List(items)])

Comment(author, clock, offset, nodes) ==
    [updateAuthor |-> [displayName |-> author],
     created |-> [clock |-> clock, offset |-> offset],
     body |-> [content |-> List(nodes)]]

GoodComments ==
    {Comment("Ann", 9, 0, <<Paragraph(<<Text("hi")>>)>>),
     Comment("Bob", 23, 2, <<Paragraph(<<Mention("@Ann"), HardBreak, Text("done")>>),
                             Dict([type |-> "rule"])>>)}

\* comments that lack a field, and comments whose body holds a node that
\* lacks its tag or its payload
BadComments ==
    {[created |-> [clock |-> 9, offset |-> 0],
      body |-> [content |-> List(<<Text("hi")>>)]],
     [updateAuthor |-> [displayName |-> "Ann"],
      body |-> [content |-> List(<<Text("hi")>>)]],
     [updateAuthor |-> [displayName |-> "Ann"],
      created |-> [clock |-> 9, offset |-> 0]],
     Comment("Ann", 9, 0, <<Paragraph(<<Text("a"), Dict([content |-> List(<<Text("b")>>)])>>)>>),
     Comment("Ann", 9, 0, <<Paragraph(<<Dict([type |-> "text"])>>)>>)}

AllComments == GoodComments \cup BadComments
AnyResponses == SeqsUpTo(AllComments, MaxComments)
FewResponses == {<<>>} \cup {<<c>> : c \in GoodComments}

KeyLists == SeqsUpTo(Keys, MaxTasks) \ {<<>>}
DistinctKeyLists == {l \in KeyLists : \A i, j \in 1..Len(l) : l[i] = l[j] => i = j}

(***************************************************************************)
(* State of the resolver within one run of the process.                    *)
(***************************************************************************)
VARIABLES
    RECENT_COMMENTS_COUNT,  \* line 25
    comments_cache,         \* line 35: issue key -> list of rendered comments
    tasks,                  \* the calls of fetch_comments submitted to the pool
    round,                  \* pools opened so far in this run
    fetches,                \* issue key -> requests made at line 68
    stores,                 \* issue key -> assignments made at line 107
    returned                \* issue key -> what the first call to return gave back

resolverVars == <<RECENT_COMMENTS_COUNT, comments_cache, tasks, round, fetches,
                  stores, returned>>

ResolverIdle ==
    /\ comments_cache = <<>>
    /\ tasks = <<>>
    /\ round = 0
    /\ fetches = [k \in Keys |-> 0]
    /\ stores = [k \in Keys |-> 0]
    /\ returned = <<>>

ResolverInit ==
    /\ RECENT_COMMENTS_COUNT \in 0..MaxRecent
    /\ ResolverIdle

Task(key) == [key |-> key, pc |-> "lookup", comments_data |-> <<>>,
              result |-> <<>>, hit |-> FALSE]

AllDone == \A t \in 1..Len(tasks) : tasks[t].pc \in {"done", "raised", "failed"}

\* lines 161-162: one task per issue of the sheet; the with block of the
\* sheet before has ended, so its tasks are over
Submit(keys) ==
    /\ AllDone
    /\ round < MaxRounds
    /\ tasks' = [t \in 1..Len(keys) |-> Task(keys[t])]
    /\ round' = round + 1
    /\ UNCHANGED <<RECENT_COMMENTS_COUNT, comments_cache, fetches, stores, returned>>

NoteReturn(ret, key, result) ==
    IF key \in DOMAIN ret THEN ret
    ELSE [k \in DOMAIN ret \cup {key} |-> IF k = key THEN result ELSE ret[k]]

\* lines 64-65
Lookup(t) ==
    /\ t \in 1..Len(tasks)
    /\ tasks[t].pc = "lookup"
    /\ IF CacheHit(comments_cache, tasks[t].key)
       THEN /\ tasks' = [tasks EXCEPT ![t].pc = "done", ![t].hit = TRUE,
                                      ![t].result = comments_cache[tasks[t].key]]
            /\ returned' = NoteReturn(returned, tasks[t].key,
                                      comments_cache[tasks[t].key])
       ELSE /\ tasks' = [tasks EXCEPT ![t].pc = "request"]
            /\ UNCHANGED returned
    /\ UNCHANGED <<RECENT_COMMENTS_COUNT, comments_cache, round, fetches, stores>>

\* lines 67-70: the request, answered with the comments the issue has now
Request(t, response) ==
    /\ t \in 1..Len(tasks)
    /\ tasks[t].pc = "request"
    /\ tasks' = [tasks EXCEPT ![t].pc = "render", ![t].comments_data = response]
    /\ fetches' = [fetches EXCEPT ![tasks[t].key] = @ + 1]
    /\ UNCHANGED <<RECENT_COMMENTS_COUNT, comments_cache, round, stores, returned>>

\* lines 67-69: the request fails (no connection, 401, 403, 5xx) and the
\* RequestException leaves fetch_comments
RequestFails(t) ==
    /\ t \in 1..Len(tasks)
    /\ tasks[t].pc = "request"
    /\ tasks' = [tasks EXCEPT ![t].pc = "failed"]
    /\ fetches' = [fetches EXCEPT ![tasks[t].key] = @ + 1]
    /\ comments_cache' = FailedFetchCache(comments_cache, tasks[t].key)
    /\ UNCHANGED <<RECENT_COMMENTS_COUNT, round, stores, returned>>

\* lines 71-111: the list is built, stored in the cache and returned, or an
\* exception leaves the function before line 107
Render(t) ==
    /\ t \in 1..Len(tasks)
    /\ tasks[t].pc = "render"
    /\ \E out \in {RenderComments(tasks[t].comments_data, RECENT_COMMENTS_COUNT)} :
        IF out.exc = "none"
        THEN /\ tasks' = [tasks EXCEPT ![t].pc = "done", ![t].result = out.val]
             /\ comments_cache' = CacheStore(comments_cache, tasks[t].key, out.val)
             /\ stores' = [stores EXCEPT ![tasks[t].key] = @ + 1]
             /\ returned' = NoteReturn(returned, tasks[t].key, out.val)
        ELSE /\ tasks' = [tasks EXCEPT ![t].pc = "raised"]
             /\ UNCHANGED <<comments_cache, stores, returned>>
    /\ UNCHANGED <<RECENT_COMMENTS_COUNT, round, fetches>>

(***************************************************************************)
(* extract_text (lines 73-89) on its own: one call on any content node.    *)
(***************************************************************************)
MaxChildren == 2     \* longest child sequence of a node

Scalar(v) == [k |-> "str", v |-> v]     \* a JSON value that is no list and no dict
Tagless(items) == Dict([content |-> List(items)])

\* nodes without children: the three leaves, a scalar, an unrecognized tag,
\* no tag, and a recognized tag without its payload
LeafNodes ==
    {Text("a"), Mention("@b"), HardBreak, Scalar("7"),
     Dict([type |-> "rule"]), Dict([id |-> "x"]),
     Dict([type |-> "text"]), Dict([type |-> "mention"])}

\* a child sequence under an unrecognized tag, under no tag, and bare
Containers(children) ==
    {Paragraph(children), Tagless(children), List(children)}

ShallowNodes ==
    UNION {Containers(children) : children \in SeqsUpTo(LeafNodes, MaxChildren)}

\* nodes with nodes that have children of their own
InnerNodes ==
    {Paragraph(<<Text("a"), HardBreak>>), List(<<Mention("@b")>>),
     Paragraph(<<>>), Tagless(<<Text("a")>>), Paragraph(<<Dict([type |-> "text"])>>),
     Text("a"), HardBreak}
DeepNodes ==
    UNION {Containers(<<x, y>>) : x \in InnerNodes, y \in InnerNodes}

ContentNodes == LeafNodes \cup ShallowNodes \cup DeepNodes

VARIABLES
    content,    \* the argument of extract_text
    flat,       \* the outcome of the call
    text_pc     \* "call" before the call, "over" after it

textVars == <<content, flat, text_pc>>

TextIdle ==
    /\ content = List(<<>>)
    /\ flat = Value(<<>>)
    /\ text_pc = "over"

TextInit ==
    /\ content \in ContentNodes
    /\ flat = Value(<<>>)
    /\ text_pc = "call"

\* lines 73-89: the call
Flatten ==
    /\ text_pc = "call"
    /\ flat' = extract_text(content)
    /\ text_pc' = "over"
    /\ UNCHANGED content

(***************************************************************************)
(* The comment cell as a string, and its annotation (lines 211-235).       *)
(*                                                                         *)
(* A string is a sequence of characters.  A character is [c |-> ...]; the  *)
(* text of a leaf and an author's name count as one character each, and so *)
(* does a timestamp in the format '%Y-%m-%d %H:%M:%S', kept as [t |-> the  *)
(* hour it names].                                                         *)
(***************************************************************************)
MaxCellComments == 2    \* most comments in one cell
MaxHighlight == 2       \* largest configured HIGHLIGHT_DAYS
DayHours == 24

Ch(c) == [c |-> c]
Str(tokens) == [i \in 1..Len(tokens) |-> Ch(tokens[i])]
Stamp(hour) == [t |-> hour]

\* s[i..] starts with sub (i from 1)
Occurs(s, sub, i) ==
    /\ i + Len(sub) - 1 <= Len(s)
    /\ \A j \in 1..Len(sub) : s[i + j - 1] = sub[j]
\* s.find(sub, from): the first index (from 0) at or after from, or -1
Find(s, sub, from) ==
    LET at == {p \in from..Len(s) : Occurs(s, sub, p + 1)}
    IN IF at = {} THEN 0 - 1 ELSE Min(at)
\* sub in s
Contains(s, sub) == Find(s, sub, 0) # 0 - 1

\* s.split(sep)
RECURSIVE Split(_, _)
Split(s, sep) ==
    CHOOSE parts \in
        {IF p = 0 - 1 THEN <<s>>
         ELSE <<SubSeq(s, 1, p)>> \o Split(SubSeq(s, p + Len(sep) + 1, Len(s)), sep) :
            p \in {Find(s, sep, 0)}} : TRUE

\* sep.join(list)
RECURSIVE Join(_, _)
Join(list, sep) ==
    IF list = <<>> THEN <<>>
    ELSE IF Len(list) = 1 THEN list[1]
    ELSE list[1] \o sep \o Join(Tail(list), sep)

\* line 102: f"**[{local_created_time}, {author}]**\n{comment_body}", and
\* line 105: f"Error parsing comment: {str(e)}"
CommentString(rendered) ==
    IF rendered.kind = "comment"
    THEN Str(<<"*", "*", "[">>) \o <<Stamp(rendered.time)>> \o Str(<<",", " ">>)
         \o Str(<<rendered.author, "]", "*", "*", "\n">>) \o Str(rendered.text)
    ELSE Str(rendered.text)

BlankLine == Str(<<"\n", "\n">>)
\* line 183: combined_comments = "\n\n".join(comments)
CombinedString(comments) ==
    Join([i \in 1..Len(comments) |-> CommentString(comments[i])], BlankLine)

\* line 225: datetime.strptime(comment_time_str, '%Y-%m-%d %H:%M:%S'): the
\* string has to be a timestamp and nothing else
IsTimeString(s) == Len(s) = 1 /\ "t" \in DOMAIN s[1]
\* timedelta.days: whole days, rounded down
Days(hours) == hours \div DayHours

\* (a test that leaves the last day out)
WithinDaysStrict(days, limit) == days < limit

\* line 226: (now - comment_time).days <= HIGHLIGHT_DAYS
WithinDays(days, limit) == days <= limit

\* GetCharacters(Start, Length)
Span(start, length) == [start |-> start, length |-> length]

\* lines 222-229 for one piece of the cell: the highlight commands sent
HighlightsOf(cell, piece, clock, limit) ==
    IF Contains(piece, Str(<<"*", "*", "[">>)) /\ Contains(piece, Str(<<"]", "*", "*">>))
    THEN LET comment_time_str ==
                 Split(Split(piece, Str(<<"*", "*", "[">>))[2], Str(<<",", " ">>))[1]
         IN IF IsTimeString(comment_time_str)
               /\ WithinDays(Days(clock - comment_time_str[1].t), limit)
            THEN {Span(Find(cell, piece, 0) + 1, Len(piece))}
            ELSE {}
    ELSE {}

\* lines 216-221 for one piece of the cell: the bold commands sent
BoldsOf(cell, piece) ==
    IF Contains(piece, Str(<<"*", "*">>))
    THEN LET start == Find(cell, piece, 0)
             bold_start == Find(piece, Str(<<"*", "*">>), 0) + 2
             bold_end == Find(piece, Str(<<"*", "*">>), bold_start)
         IN IF bold_end # 0 - 1
            THEN {Span(start + bold_start + 1, bold_end - bold_start)}
            ELSE {}
    ELSE {}

\* what the tracker's comments flatten to: plain text, one line break, two
\* line breaks in a row, a line break first
BodyNodes ==
    {<<Text("a")>>, <<Text("a"), HardBreak, Text("b")>>,
     <<Text("a"), HardBreak, HardBreak, Text("b")>>, <<HardBreak, Text("a")>>}
Bodies == {extract_text(List(nodes)).val : nodes \in BodyNodes}

VARIABLES
    HIGHLIGHT_DAYS,   \* line 22
    now,              \* datetime.now(), in hours
    cell_comments,    \* the rendered comments of the row's issue, newest first
    cell_value,       \* line 213: the string in column 9
    highlights,       \* the spans given the highlight color
    bolds,            \* the spans made bold
    mark_pc           \* "call" before the cell is annotated, "over" after

markVars == <<HIGHLIGHT_DAYS, now, cell_comments, cell_value, highlights, bolds, mark_pc>>

\* the ages, in hours, that lie on both sides of the limit
Ages(limit) ==
    {0 - 1, limit * DayHours, limit * DayHours + DayHours - 1,
     (limit + 1) * DayHours, (limit + 1) * DayHours + 1}
NowHour == (MaxHighlight + 3) * DayHours

\* the comments of one issue carry different timestamps
CellComments(limit) ==
    {list \in SeqsUpTo({FullComment(NowHour - age, "Ann", body) :
                            age \in Ages(limit), body \in Bodies},
                       MaxCellComments) :
        /\ list # <<>>
        /\ \A i, j \in 1..Len(list) : list[i].time = list[j].time => i = j}

MarksIdle ==
    /\ HIGHLIGHT_DAYS = 0
    /\ now = 0
    /\ cell_comments = <<>>
    /\ cell_value = <<>>
    /\ highlights = {}
    /\ bolds = {}
    /\ mark_pc = "over"

\* lines 183-209: the cell holds the combined comments of its row
MarksInit ==
    /\ HIGHLIGHT_DAYS \in 0..MaxHighlight
    /\ now = NowHour
    /\ cell_comments \in CellComments(HIGHLIGHT_DAYS)
    /\ cell_value = CombinedString(cell_comments)
    /\ highlights = {}
    /\ bolds = {}
    /\ mark_pc = "call"

\* lines 213-235 for one row
Annotate ==
    /\ mark_pc = "call"
    /\ \E pieces \in {Split(cell_value, BlankLine)} :
          /\ highlights' = UNION {HighlightsOf(cell_value, pieces[i], now, HIGHLIGHT_DAYS) :
                                     i \in 1..Len(pieces)}
          /\ bolds' = UNION {BoldsOf(cell_value, pieces[i]) : i \in 1..Len(pieces)}
    /\ mark_pc' = "over"
    /\ UNCHANGED <<HIGHLIGHT_DAYS, now, cell_comments, cell_value>>

(***************************************************************************)
(* The query resolver, fetch_issues (lines 40-58).                         *)
(*                                                                         *)
(* The tracker holds a static ordered list of matching issues and answers  *)
(* a request for (startAt, maxResults) with the issues from that offset:   *)
(* at most maxResults of them, and at least one when any is left (the      *)
(* server may cap a page below the size asked for).                        *)
(***************************************************************************)
MaxMatching == 3     \* most issues that match a query
MaxPage == 3         \* largest configured MAX_RESULTS

IssueIds == {"K-1", "K-2", "K-3"}
MatchingLists == {l \in SeqsUpTo(IssueIds, MaxMatching) :
                     \A i, j \in 1..Len(l) : l[i] = l[j] => i = j}

VARIABLES
    MAX_RESULTS,    \* line 20
    matching,       \* the tracker: the issues that match the query, in order
    start_at,       \* line 44
    all_issues,     \* line 45
    fetch_pc        \* "request" (line 47), "returned" (line 58), "raised" (line 49)

pageVars == <<MAX_RESULTS, matching, start_at, all_issues, fetch_pc>>

PagesIdle ==
    /\ MAX_RESULTS = 1
    /\ matching = <<>>
    /\ start_at = 0
    /\ all_issues = <<>>
    /\ fetch_pc = "returned"

\* lines 44-45, for any query and any configured page size
PagesInit ==
    /\ MAX_RESULTS \in 1..MaxPage
    /\ matching \in MatchingLists
    /\ start_at = 0
    /\ all_issues = <<>>
    /\ fetch_pc = "request"

\* the issues left from offset startAt
Remaining(list, startAt) == Max({0, Len(list) - startAt})
\* the page sizes the tracker may answer with
PageSizes(list, startAt, maxResults) ==
    IF Remaining(list, startAt) = 0 THEN {0}
    ELSE 1..Min({maxResults, Remaining(list, startAt)})
Page(list, startAt, n) == [i \in 1..n |-> list[startAt + i]]

\* line 54: start_at += MAX_RESULTS
Advance(startAt, maxResults) == startAt + maxResults

\* lines 46-54: one turn of the loop, the request answered with n issues
FetchPage(n) ==
    /\ fetch_pc = "request"
    /\ n \in PageSizes(matching, start_at, MAX_RESULTS)
    /\ IF n = 0                                              \* lines 51-52
       THEN /\ fetch_pc' = "returned"
            /\ UNCHANGED <<start_at, all_issues>>
       ELSE /\ all_issues' = all_issues \o Page(matching, start_at, n)
            /\ start_at' = Advance(start_at, MAX_RESULTS)
            /\ UNCHANGED fetch_pc
    /\ UNCHANGED <<MAX_RESULTS, matching>>

\* lines 48-49: the request fails and the exception leaves fetch_issues
FetchPageFails ==
    /\ fetch_pc = "request"
    /\ fetch_pc' = "raised"
    /\ UNCHANGED <<MAX_RESULTS, matching, start_at, all_issues>>

(***************************************************************************)
(* One run of create_excel, step by step (lines 118-248, 294-301): the     *)
(* calling thread walks through the sheets; for each sheet it fetches the  *)
(* issues, hands one fetch_comments call per issue to the pool, takes the  *)
(* futures as they complete, merges the rows, and saves after the last     *)
(* sheet.  The pool's threads run the calls.                               *)
(***************************************************************************)
MaxIssues == 2       \* longest issue list a query of the run answers with

RunQueries == <<"s1", "s2">>    \* config['QUERY'] of the run
FailureReport == "Failed to fetch issues"   \* line 301
Traceback == "Traceback"        \* an exception main does not catch

\* an issue of the tracker: its key and its fields
Issue(key, fields) == [key |-> key, fields |-> fields]
IssueLists == {l \in SeqsUpTo({Issue(k, v) : k \in Keys, v \in Vals}, MaxIssues) :
                  \A i, j \in 1..Len(l) : l[i].key = l[j].key => i = j}

\* what fetch_comments(key) returns, joined (line 183): the comments the
\* tracker holds for that key
CombinedComments == [k \in Keys |-> IF k = "K-1" THEN "comments of K-1"
                                    ELSE "comments of K-2"]

\* lines 166-184: the row of an issue and of the comments resolved
ProjectIssue(issue, comments) ==
    [ProjectRow(issue.key, issue.fields) EXCEPT ![9] = comments]

\* a document a run before has saved
SavedDocument ==
    <<Sheet(SheetName("s1"), HeaderCells \o <<ProjectRow("K-1", "v1")>>)>> \o NewWorkbook

VARIABLES
    run_file,         \* the report file on disk
    before,           \* the report file when the run began
    workbook,         \* wb: the workbook open in the sink
    run_pc,           \* where the calling thread is
    sheet_ix,         \* the query the loop of line 134 is at
    issues,           \* line 153
    futures,          \* the pool's futures, in submission order
    future_to_issue,  \* line 162
    run_rows,         \* line 160: rows
    actor,            \* the thread that took the last step
    failed_at,        \* the sheet at which a request of the run first failed, or 0
    reported          \* what the operator has been told

runVars == <<run_file, before, workbook, run_pc, sheet_ix, issues, futures,
             future_to_issue, run_rows, actor, failed_at, reported>>

RunIdle ==
    /\ run_file = NoFile
    /\ before = NoFile
    /\ workbook = <<>>
    /\ run_pc = "idle"
    /\ sheet_ix = 1
    /\ issues = <<>>
    /\ futures = <<>>
    /\ future_to_issue = <<>>
    /\ run_rows = <<>>
    /\ actor = "main"
    /\ failed_at = 0
    /\ reported = ""

\* lines 129-132: the run has opened the workbook
RunInit ==
    /\ run_file \in {NoFile, SavedDocument}
    /\ before = run_file
    /\ workbook = OpenWorkbook(run_file)
    /\ run_pc = "sheet"
    /\ sheet_ix = 1
    /\ issues = <<>>
    /\ futures = <<>>
    /\ future_to_issue = <<>>
    /\ run_rows = <<>>
    /\ actor = "main"
    /\ failed_at = 0
    /\ reported = ""

Future(key) == [arg |-> key, state |-> "pending", result |-> "", taken |-> FALSE]
Pending == {i \in 1..Len(futures) : futures[i].state = "pending"}
Untaken == {i \in 1..Len(futures) : ~futures[i].taken}

\* lines 136-149: the sheet of the query is found, or added with its header
OpenRunSheet ==
    /\ run_pc = "sheet"
    /\ workbook' = GetOrCreateSheet(workbook, RunQueries[sheet_ix])
    /\ run_pc' = "issues"
    /\ issues' = <<>>
    /\ futures' = <<>>
    /\ future_to_issue' = <<>>
    /\ run_rows' = <<>>
    /\ actor' = "main"
    /\ UNCHANGED <<run_file, before, sheet_ix, reported, failed_at>>

\* line 153: fetch_issues returns the list
FetchIssues(list) ==
    /\ run_pc = "issues"
    /\ issues' = list
    /\ run_pc' = "submit"
    /\ actor' = "main"
    /\ UNCHANGED <<run_file, before, workbook, sheet_ix, futures, future_to_issue,
                   run_rows, reported, failed_at>>

\* (a failed fetch that the run takes for an empty answer and goes on)
FailureSkipsSheet(pc) == "submit"

\* a RequestException leaves create_excel through every frame up to main
\* (no except clause on the way), where lines 300-301 print it
FailurePc(pc) == "failed"

\* line 153: fetch_issues raises (lines 48-49)
FetchIssuesFails ==
    /\ run_pc = "issues"
    /\ failed_at' = IF failed_at = 0 THEN sheet_ix ELSE failed_at
    /\ run_pc' = FailurePc(run_pc)
    /\ reported' = IF run_pc' = "failed" THEN FailureReport ELSE reported
    /\ actor' = "main"
    /\ UNCHANGED <<run_file, before, workbook, sheet_ix, issues, futures,
                   future_to_issue, run_rows>>

\* lines 161-162: one call of fetch_comments(issue['key']) per issue
SubmitTasks ==
    /\ run_pc = "submit"
    /\ futures' = [i \in 1..Len(issues) |-> Future(issues[i].key)]
    /\ future_to_issue' = [i \in 1..Len(issues) |-> issues[i]]
    /\ run_pc' = "collect"
    /\ actor' = "main"
    /\ UNCHANGED <<run_file, before, workbook, sheet_ix, issues, run_rows, reported, failed_at>>

\* a thread of the pool: fetch_comments(arg) returns
WorkerReturns(i) ==
    /\ i \in Pending
    /\ futures' = [futures EXCEPT ![i].state = "finished",
                                  ![i].result = CombinedComments[futures[i].arg]]
    /\ actor' = "worker"
    /\ UNCHANGED <<run_file, before, workbook, run_pc, sheet_ix, issues,
                   future_to_issue, run_rows, reported, failed_at>>

\* a thread of the pool: fetch_comments(arg) raises a RequestException
WorkerRaises(i) ==
    /\ i \in Pending
    /\ futures' = [futures EXCEPT ![i].state = "raised"]
    /\ failed_at' = IF failed_at = 0 THEN sheet_ix ELSE failed_at
    /\ actor' = "worker"
    /\ UNCHANGED <<run_file, before, workbook, run_pc, sheet_ix, issues,
                   future_to_issue, run_rows, reported>>

\* (the issue at the position of the future in completion order)
IssueAtIndex(map, future, index) == map[index]

\* line 165: issue = future_to_issue[future]
IssueOfFuture(map, future, index) == map[future]

\* lines 164-187: as_completed yields a future that is over; the row of its
\* issue is appended, or future.result() raises
TakeFuture(i) ==
    /\ run_pc = "collect"
    /\ i \in Untaken \ Pending
    /\ futures' = [futures EXCEPT ![i].taken = TRUE]
    /\ IF futures[i].state = "finished"
       THEN /\ run_rows' = Append(run_rows,
                    ProjectIssue(IssueOfFuture(future_to_issue, i, Len(run_rows) + 1),
                                 futures[i].result))
            /\ UNCHANGED run_pc
       ELSE /\ run_pc' = "unwind"
            /\ UNCHANGED run_rows
    /\ actor' = "main"
    /\ UNCHANGED <<run_file, before, workbook, sheet_ix, issues, future_to_issue,
                   reported, failed_at>>

\* line 161: the with block is left on an exception once the pool's threads
\* are over (shutdown waits), and the exception goes on to main
Unwind ==
    /\ run_pc = "unwind"
    /\ Pending = {}
    /\ run_pc' = FailurePc(run_pc)
    /\ reported' = IF run_pc' = "failed" THEN FailureReport ELSE reported
    /\ actor' = "main"
    /\ UNCHANGED <<run_file, before, workbook, sheet_ix, issues, futures,
                   future_to_issue, run_rows, failed_at>>

\* (a loop that ends with the first future taken)
LoopOverAtFirst(fs) == \E i \in 1..Len(fs) : fs[i].taken

\* lines 164, 161: as_completed has yielded every future and the with block
\* has ended
LoopOver(fs) == \A i \in 1..Len(fs) : fs[i].taken

\* lines 193-240: the merge of the rows into the sheet; the loop of line 134
\* goes on to the next query, or line 245 is reached
MergeSheet ==
    /\ run_pc = "collect"
    /\ LoopOver(futures)
    /\ workbook' = SetSheetCells(workbook, RunQueries[sheet_ix],
                       Merge(SheetCells(workbook, RunQueries[sheet_ix]), run_rows))
    /\ sheet_ix' = sheet_ix + 1
    /\ run_pc' = IF sheet_ix < Len(RunQueries) THEN "sheet" ELSE "save"
    /\ actor' = "main"
    /\ UNCHANGED <<run_file, before, issues, futures, future_to_issue, run_rows,
                   reported, failed_at>>

\* line 245: save_excel(wb, excel); a com_error is not a RequestException
SaveRun(reopen) ==
    /\ run_pc = "save"
    /\ run_file' = save_excel(run_file, workbook, reopen)
    /\ IF run_file # NoFile /\ reopen = "refused"
       THEN run_pc' = "crashed" /\ reported' = Traceback
       ELSE run_pc' = "saved" /\ UNCHANGED reported
    /\ actor' = "main"
    /\ UNCHANGED <<before, workbook, sheet_ix, issues, futures, future_to_issue,
                   run_rows, failed_at>>

(***************************************************************************)
(* The state as a whole.                                                   *)
(***************************************************************************)
vars == <<jobVars, resolverVars, textVars, markVars, pageVars, runVars>>
jobRest == <<resolverVars, textVars, markVars, pageVars, runVars>>
resolverRest == <<jobVars, textVars, markVars, pageVars, runVars>>
textRest == <<jobVars, resolverVars, markVars, pageVars, runVars>>
markRest == <<jobVars, resolverVars, textVars, pageVars, runVars>>
pageRest == <<jobVars, resolverVars, textVars, markVars, runVars>>
runRest == <<jobVars, resolverVars, textVars, markVars, pageVars>>

\* the parts of the program that a specification leaves at rest
JobAtRest == JobInit
ResolverAtRest == ResolverIdle /\ RECENT_COMMENTS_COUNT = MaxRecent

\* the job and the document it keeps
Init == JobInit /\ ResolverAtRest /\ TextIdle /\ MarksIdle /\ PagesIdle /\ RunIdle
RunJob == \E fetched \in [QueryNames -> RowLists], reopen \in ReopenOutcomes :
              create_excel(fetched, reopen) /\ UNCHANGED jobRest
OperatorRemark == \E s \in QueryNames, r \in 2..MaxSheetRows :
                      EditRemark(s, r) /\ UNCHANGED jobRest
OperatorTitle == \E s \in QueryNames : EditTitle(s) /\ UNCHANGED jobRest
Next == RunJob \/ OperatorRemark \/ OperatorTitle
Spec == Init /\ [][Next]_vars

\* the resolver, for each configured RECENT_COMMENTS_COUNT
ResolverStart == JobAtRest /\ ResolverInit /\ TextIdle /\ MarksIdle /\ PagesIdle /\ RunIdle

\* the steps of the pool's threads
LookupStep == \E t \in 1..MaxTasks : Lookup(t) /\ UNCHANGED resolverRest
RequestAny == \E t \in 1..MaxTasks, response \in AnyResponses :
                  Request(t, response) /\ UNCHANGED resolverRest
RequestFew == \E t \in 1..MaxTasks, response \in FewResponses :
                  Request(t, response) /\ UNCHANGED resolverRest
RenderStep == \E t \in 1..MaxTasks : Render(t) /\ UNCHANGED resolverRest

\* one call of fetch_comments in a fresh process, any answer of the tracker
SubmitFirst == \E k \in Keys :
                   comments_cache = <<>> /\ Submit(<<k>>) /\ UNCHANGED resolverRest
WindowNext == SubmitFirst \/ LookupStep \/ RequestAny \/ RenderStep
SpecWindow == ResolverStart /\ [][WindowNext]_vars

\* pools over issue lists that name each issue once: the calls for one key
\* follow one another, the calls for different keys overlap
SubmitDistinct == \E keys \in DistinctKeyLists : Submit(keys) /\ UNCHANGED resolverRest
MemoNext == SubmitDistinct \/ LookupStep \/ RequestFew \/ RenderStep
SpecMemo == ResolverStart /\ [][MemoNext]_vars

\* pools over any issue list, the same key twice included
SubmitAny == \E keys \in KeyLists : Submit(keys) /\ UNCHANGED resolverRest
PoolNext == SubmitAny \/ LookupStep \/ RequestFew \/ RenderStep
SpecPool == ResolverStart /\ [][PoolNext]_vars

\* calls that follow one another per key, where a request may fail
RequestFailsStep == \E t \in 1..MaxTasks : RequestFails(t) /\ UNCHANGED resolverRest
FailNext == SubmitDistinct \/ LookupStep \/ RequestFew \/ RequestFailsStep \/ RenderStep
SpecFail == ResolverStart /\ [][FailNext]_vars

\* one call of extract_text, for every content node
FlattenStep == Flatten /\ UNCHANGED textRest
TextStart == JobAtRest /\ ResolverAtRest /\ TextInit /\ MarksIdle /\ PagesIdle /\ RunIdle
SpecText == TextStart /\ [][FlattenStep]_vars

\* the annotation of one comment cell, for every configured limit
AnnotateStep == Annotate /\ UNCHANGED markRest
MarksStart == JobAtRest /\ ResolverAtRest /\ TextIdle /\ MarksInit /\ PagesIdle /\ RunIdle
SpecMarks == MarksStart /\ [][AnnotateStep]_vars

\* one call of fetch_issues, for every query, page size and page cut
PageStep == \E n \in 0..MaxPage : FetchPage(n) /\ UNCHANGED pageRest
PageFailsStep == FetchPageFails /\ UNCHANGED pageRest
PagesNext == PageStep \/ PageFailsStep
PagesStart == JobAtRest /\ ResolverAtRest /\ TextIdle /\ MarksIdle /\ PagesInit /\ RunIdle
SpecPages == PagesStart /\ [][PagesNext]_vars

\* one run, for every answer of the tracker and every order of the threads
RunOpenSheet == OpenRunSheet /\ UNCHANGED runRest
RunFetchIssues == \E list \in IssueLists : FetchIssues(list) /\ UNCHANGED runRest
RunFetchIssuesFails == FetchIssuesFails /\ UNCHANGED runRest
RunSubmit == SubmitTasks /\ UNCHANGED runRest
RunWorkerReturns == \E i \in 1..MaxIssues : WorkerReturns(i) /\ UNCHANGED runRest
RunWorkerRaises == \E i \in 1..MaxIssues : WorkerRaises(i) /\ UNCHANGED runRest
RunTakeFuture == \E i \in 1..MaxIssues : TakeFuture(i) /\ UNCHANGED runRest
RunUnwind == Unwind /\ UNCHANGED runRest
RunMergeSheet == MergeSheet /\ UNCHANGED runRest
RunSave == \E reopen \in ReopenOutcomes : SaveRun(reopen) /\ UNCHANGED runRest
RunNext == \/ RunOpenSheet \/ RunFetchIssues \/ RunFetchIssuesFails \/ RunSubmit
           \/ RunWorkerReturns \/ RunWorkerRaises \/ RunTakeFuture \/ RunUnwind
           \/ RunMergeSheet \/ RunSave
RunStart == JobAtRest /\ ResolverAtRest /\ TextIdle /\ MarksIdle /\ PagesIdle /\ RunInit
SpecRun == RunStart /\ [][RunNext]_vars

(***************************************************************************)
(* Properties of the merge step and of the job.                            *)
(***************************************************************************)
Ran == disk # NoFile                       \* at least one run has been made
DataRows(cells) == {r \in 3..Len(cells) : cells[r][1] # EmptyCell}
KeysOf(cells, rs) == {cells[r][1] : r \in rs}
NewKeys(list) == {list[i][1] : i \in 1..Len(list)}
LastFor(list, k) == list[Max({i \in 1..Len(list) : list[i][1] = k})]

\* C1: a projected row whose identifier is that of an existing data row leaves
\* that same row holding the new values in columns 2..9 and its old remark,
\* and a merge of matching rows only leaves the number of data rows unchanged.
C1_UpdateInPlace ==
    Ran => \A s \in QueryNames :
        /\ \A r \in DataRows(pre[s]) :
              pre[s][r][1] \in NewKeys(rows[s]) =>
                  /\ r \in 1..Len(post[s])
                  /\ post[s][r][1] = pre[s][r][1]
                  /\ \A c \in 2..9 : post[s][r][c] = LastFor(rows[s], pre[s][r][1])[c]
                  /\ post[s][r][10] = pre[s][r][10]
        /\ NewKeys(rows[s]) \subseteq KeysOf(pre[s], DataRows(pre[s])) =>
              Cardinality(DataRows(post[s])) = Cardinality(DataRows(pre[s]))

\* C2: in the saved document, no issue identifier is held by two rows of a
\* query's sheet.
C2_NoDuplicateIdentifier ==
    \A s \in QueryNames :
        (Ran /\ HasSheet(disk, s)) =>
            \A r1, r2 \in IssueRows(SheetCells(disk, s)) :
                SheetCells(disk, s)[r1][1] = SheetCells(disk, s)[r2][1] => r1 = r2

\* C3: a projected row whose identifier matches no existing data row lands in
\* the row right after the last existing row, with an empty remark, and the
\* rows that existed before the merge (header and data) whose identifier was
\* not fetched keep every cell.
FirstNew(s) == Min({i \in 1..Len(rows[s]) :
                       rows[s][i][1] \notin KeysOf(pre[s], DataRows(pre[s]))})
C3_AppendAfterLast ==
    Ran => \A s \in QueryNames :
        (NewKeys(rows[s]) \ KeysOf(pre[s], DataRows(pre[s])) # {}) =>
            /\ Len(post[s]) > Len(pre[s])
            /\ post[s][Len(pre[s]) + 1][1] = rows[s][FirstNew(s)][1]
            /\ post[s][Len(pre[s]) + 1][10] = EmptyCell
            /\ \A r \in 1..Len(pre[s]) :
                  (r \notin DataRows(pre[s]) \/ pre[s][r][1] \notin NewKeys(rows[s]))
                      => post[s][r] = pre[s][r]

\* C4: a data row whose identifier is absent from the run's fetched issues is
\* still there after the run, with all ten cells unchanged.
C4_NeverDeletes ==
    Ran => \A s \in QueryNames : \A r \in DataRows(pre[s]) :
        pre[s][r][1] \notin NewKeys(rows[s]) =>
            (r \in 1..Len(post[s]) /\ post[s][r] = pre[s][r])

\* C5: merging the same list of projected rows a second time changes nothing.
C5_MergeIdempotent ==
    Ran => \A s \in QueryNames : Merge(post[s], rows[s]) = post[s]

\* C6: a second complete run with the same fetched rows, on the document the
\* run before saved, leaves the saved document with the same sheets and rows.
SheetSet(book) == {book[i] : i \in 1..Len(book)}
IsRerun == saved /\ ~edited /\ ~edited' /\ rows' = rows
C6_RerunConverges ==
    [][IsRerun => SheetSet(disk') = SheetSet(disk)]_vars

\* C20: a sheet that did not exist when the run looked it up has the header
\* row before the merge writes a row; after the merge the header row still
\* holds the ten header values, and every projected row is in a row of its
\* own below the header row.
C20_NewSheetLayout ==
    Ran => \A s \in QueryNames :
        ~existed[s] =>
            /\ pre[s] = HeaderCells
            /\ Len(post[s]) >= 2 /\ post[s][2] = headers
            /\ \A i \in 1..Len(rows[s]) :
                  \E r \in 3..Len(post[s]) :
                      /\ post[s][r] = rows[s][i]
                      /\ \A q \in 1..Len(post[s]) : post[s][q][1] = rows[s][i][1] => q = r

(***************************************************************************)
(* Properties of the comment resolver.                                     *)
(***************************************************************************)
Finished(t) == t \in 1..Len(tasks) /\ tasks[t].pc = "done"
Fetched(t) == Finished(t) /\ ~tasks[t].hit

\* C7: once a call for a key has returned, no further request is made for
\* that key and every later call for it returns the sequence the first one
\* returned, an empty one included (calls for one key following one another).
C7_Memoized ==
    \A k \in DOMAIN returned :
        /\ fetches[k] = 1
        /\ CacheHit(comments_cache, k) /\ comments_cache[k] = returned[k]
        /\ \A t \in 1..Len(tasks) :
              tasks[t].key = k =>
                  /\ tasks[t].pc \in {"lookup", "done"}
                  /\ tasks[t].pc = "done" => tasks[t].result = returned[k]

\* a later call has been answered from the cache, with an empty sequence
C7_Witness ==
    \E t \in 1..Len(tasks) :
        /\ Finished(t) /\ tasks[t].hit
        /\ tasks[t].result = <<>>
        /\ fetches[tasks[t].key] = 1

\* C8: under every interleaving of the pool's threads each key is fetched at
\* most once and its cache entry is assigned at most once.
C8_OncePerKey ==
    \A k \in Keys : fetches[k] <= 1 /\ stores[k] <= 1

\* C9: a call that fetched L comments returns min(N, L) entries, and entry i
\* (from 0) renders the fetched comment at position L-1-i (from 0).
Rendering(comment) ==
    LET parsed == ParseComment(comment)
    IN IF parsed.exc = "none" THEN parsed.val ELSE ErrorMarker(parsed)
MinOf(a, b) == IF a <= b THEN a ELSE b
C9_TrailingNewestFirst ==
    \A t \in 1..Len(tasks) :
        Fetched(t) =>
            LET L == Len(tasks[t].comments_data)
            IN /\ Len(tasks[t].result) = MinOf(RECENT_COMMENTS_COUNT, L)
               /\ \A i \in 0..(Len(tasks[t].result) - 1) :
                     tasks[t].result[i + 1] = Rendering(tasks[t].comments_data[L - i])

\* C10: a comment of the window that lacks a field, or whose body holds a node
\* without its tag or payload, does not make the call raise: the call returns
\* one entry per comment of the window, an error marker for that comment and
\* the normal rendering for every other, and that sequence is in the cache.
NormalRendering(comment) ==
    FullComment(LocalTime(comment.created), comment.updateAuthor.displayName,
                extract_text(comment.body.content).val)
FailsNow(t) ==
    /\ t \in 1..Len(tasks) /\ tasks[t].pc = "request"
    /\ t \in 1..Len(tasks') /\ tasks'[t].pc = "failed"
C11_FailedFetchLeavesNoMemo ==
    /\ [](\A t \in 1..Len(tasks) :
            tasks[t].pc = "failed" =>
                /\ tasks[t].result = <<>>
                /\ ~CacheHit(comments_cache, tasks[t].key))
    /\ [](\A k \in DOMAIN comments_cache :
            stores[k] >= 1 /\ k \in DOMAIN returned /\ comments_cache[k] = returned[k])
    /\ [][\A t \in 1..MaxTasks : FailsNow(t) => comments_cache' = comments_cache]_vars

\* a call for a key whose earlier request failed has requested again and
\* returned the list it fetched
C11_Witness ==
    \E t \in 1..Len(tasks) :
        /\ Fetched(t)
        /\ fetches[tasks[t].key] = 2
        /\ stores[tasks[t].key] = 1
        /\ tasks[t].result # <<>>

(***************************************************************************)
(* Properties of extract_text.                                             *)
(***************************************************************************)
IsDict(node) == node.k = "dict"
HasTag(node) == IsDict(node) /\ "type" \in DOMAIN node.f
HasChildren(node) == IsDict(node) /\ "content" \in DOMAIN node.f
RecognizedTags == {"text", "mention", "hardBreak"}
Unrecognized(node) == HasTag(node) /\ node.f.type \notin RecognizedTags

\* the outcomes of the children, one after the other
FlatChildren(items) == [i \in 1..Len(items) |-> extract_text(items[i])]
Concatenation(outs) ==
    IF \E i \in 1..Len(outs) : outs[i].exc # "none"
    THEN outs[Min({i \in 1..Len(outs) : outs[i].exc # "none"})]
    ELSE IF Len(outs) = 0 THEN Value(<<>>)
    ELSE IF Len(outs) = 1 THEN outs[1]
    ELSE Value(outs[1].val \o outs[2].val)

\* C15: extract_text returns a string for every content node and never
\* raises; an unrecognized tag without children gives the empty string, an
\* unrecognized or absent tag with children the concatenation of the
\* flattened children.
C15_FlatteningTotal ==
    text_pc = "over" =>
        /\ flat.exc = "none"
        /\ (Unrecognized(content) /\ ~HasChildren(content)) => flat = Value(<<>>)
        /\ (IsDict(content) /\ HasChildren(content)
                /\ (Unrecognized(content) \/ ~HasTag(content))
                /\ Len(content.f.content.items) <= 2) =>
              flat = Concatenation(FlatChildren(content.f.content.items))

\* C16: extract_text of a container, or of a bare sequence, with children
\* [A, B] is extract_text(A) followed by extract_text(B) (a child that raises
\* makes the whole raise the same); a text leaf gives its literal, a mention
\* its display text, a hardBreak one newline.
ChildrenOf(node) == IF IsDict(node) THEN node.f.content.items ELSE node.items
IsContainer(node) ==
    \/ node.k = "list"
    \/ Unrecognized(node) /\ HasChildren(node)
C16_ConcatenationHomomorphism ==
    text_pc = "over" =>
        /\ (IsContainer(content) /\ Len(ChildrenOf(content)) = 2) =>
              flat = Concatenation(FlatChildren(ChildrenOf(content)))
        /\ \A t \in {"a", "@b"} :
              /\ content = Text(t) => flat = Value(<<t>>)
              /\ content = Mention(t) => flat = Value(<<t>>)
        /\ content = HardBreak => flat = Value(<<"\n">>)

\* a container of two containers has been flattened
C16_Witness ==
    /\ text_pc = "over"
    /\ content = Paragraph(<<Paragraph(<<Text("a"), HardBreak>>), List(<<Mention("@b")>>)>>)
    /\ flat = Value(<<"a", "\n", "@b">>)

(***************************************************************************)
(* Properties of the annotation.                                           *)
(***************************************************************************)
\* where comment i starts in the cell (from 1), and how long it is
SpanLength(i) == Len(CommentString(cell_comments[i]))
SpanStart(i) ==
    1 + Len(CombinedString(SubSeq(cell_comments, 1, i - 1)))
      + (IF i > 1 THEN Len(BlankLine) ELSE 0)
ElapsedHours(i) == now - cell_comments[i].time

\* C17: every comment of the cell whose timestamp is within HIGHLIGHT_DAYS
\* gets a highlight command that covers it from the first character of its
\* header to the last character of its body, line breaks in the body or not.
C17_HighlightCoversComment ==
    mark_pc = "over" =>
        \A i \in 1..Len(cell_comments) :
            ElapsedHours(i) < (HIGHLIGHT_DAYS + 1) * DayHours =>
                Span(SpanStart(i), SpanLength(i)) \in highlights

\* C18: a comment is highlighted exactly when the whole number of days from
\* its header timestamp to now is at most HIGHLIGHT_DAYS: one that is exactly
\* HIGHLIGHT_DAYS days old is, one that is exactly HIGHLIGHT_DAYS + 1 days
\* old is not.
Highlighted(i) == \E h \in highlights : h.start = SpanStart(i)
C18_HighlightBoundary ==
    mark_pc = "over" =>
        \A i \in 1..Len(cell_comments) :
            /\ Highlighted(i) <=> ElapsedHours(i) < (HIGHLIGHT_DAYS + 1) * DayHours
            /\ ElapsedHours(i) = HIGHLIGHT_DAYS * DayHours => Highlighted(i)
            /\ ElapsedHours(i) = (HIGHLIGHT_DAYS + 1) * DayHours => ~Highlighted(i)

\* a cell with a comment on each side of the limit has been annotated
C18_Witness ==
    /\ mark_pc = "over"
    /\ HIGHLIGHT_DAYS >= 1
    /\ \E i, j \in 1..Len(cell_comments) :
          /\ ElapsedHours(i) = HIGHLIGHT_DAYS * DayHours /\ Highlighted(i)
          /\ ElapsedHours(j) = (HIGHLIGHT_DAYS + 1) * DayHours /\ ~Highlighted(j)

(***************************************************************************)
(* Properties of the query resolver.                                       *)
(***************************************************************************)
\* C12: for every list of matching issues and every MAX_RESULTS >= 1, with
\* pages of 1..MAX_RESULTS issues from the requested offset, fetch_issues
\* returns every matching issue exactly once, in the tracker's order.
C12_PaginationComplete ==
    fetch_pc = "returned" => all_issues = matching

(***************************************************************************)
(* Properties of one run.                                                  *)
(***************************************************************************)
TakenRows == {i \in 1..Len(futures) : futures[i].taken /\ futures[i].state = "finished"}
RowsOf(key) == {r \in 1..Len(run_rows) : run_rows[r][1] = key}

\* C13: whatever the order in which the pool's calls complete, there is one
\* row per issue whose future has been taken (one per fetched issue when the
\* loop is over), and the row holds the fields of the issue whose key was
\* passed to the call that returned the row's combined comments.
C13_RowOfItsIssue ==
    /\ Len(run_rows) = Cardinality(TakenRows)
    /\ \A i \in 1..Len(futures) :
          /\ futures[i].arg = issues[i].key
          /\ Cardinality(RowsOf(issues[i].key)) = IF i \in TakenRows THEN 1 ELSE 0
          /\ i \in TakenRows =>
                \A r \in RowsOf(issues[i].key) :
                    /\ \A c \in 2..8 : run_rows[r][c] = issues[i].fields
                    /\ run_rows[r][9] = futures[i].result
                    /\ run_rows[r][9] = CombinedComments[issues[i].key]
    /\ (run_pc = "collect" /\ Untaken = {}) => Len(run_rows) = Len(issues)

\* the loop is over, and the call submitted second was taken first
C13_Witness ==
    /\ run_pc = "collect" /\ Untaken = {}
    /\ Len(issues) = 2
    /\ issues[1].fields # issues[2].fields
    /\ run_rows[1][1] = issues[2].key
    /\ run_rows[2][1] = issues[1].key

\* C14: the workbook is changed by the calling thread only, and from the
\* moment the calls of a sheet are submitted no cell is written until every
\* one of them is over and taken.
C14_MergeAfterPool ==
    [][workbook' # workbook =>
          /\ actor' = "main"
          /\ Pending = {}
          /\ run_pc = "sheet" \/ (run_pc = "collect" /\ Untaken = {})]_vars

\* the merge has written the rows of two calls into the sheet
C14_Witness ==
    /\ run_pc = "sheet" /\ sheet_ix = 2
    /\ Len(futures) = 2 /\ Len(run_rows) = 2
    /\ \A r \in 1..2 :
          \E q \in 1..Len(SheetCells(workbook, RunQueries[1])) :
              SheetCells(workbook, RunQueries[1])[q] = run_rows[r]

\* C19: once a search request or a comment request of the run has failed, at
\* whatever sheet, the run goes to no later sheet and never reaches
\* save_excel: the file is what it was before the run; a failed fetch_issues
\* hands no list to the run; and the run ends with the failure reported.
C19_FailureAbortsUnsaved ==
    /\ failed_at # 0 =>
          /\ run_pc \in {"collect", "unwind", "failed"}
          /\ sheet_ix = failed_at
          /\ run_file = before
    /\ run_pc = "failed" =>
          /\ failed_at # 0
          /\ reported = FailureReport
          /\ futures = <<>> => issues = <<>>
    /\ (failed_at # 0 /\ ~ENABLED RunNext) => run_pc = "failed"

\* a comment request of the second sheet has failed after the first sheet
\* was merged, and the run has ended with the file as it was
C19_Witness ==
    /\ run_pc = "failed" /\ reported = FailureReport
    /\ failed_at = 2
    /\ \E i \in 1..Len(futures) : futures[i].state = "raised"
    /\ before = SavedDocument /\ run_file = before
    /\ workbook # OpenWorkbook(before)

====
